---- MODULE Spec2Model ----
(***************************************************************************)
(* Sync engine of grow-sqlite: the XState sync machine (in its two         *)
(* configurations), its delayed transitions, and the session driver with   *)
(* the storage-level merge.                                                *)
(*                                                                         *)
(* Two machine definitions exist in the sources.  The one with the         *)
(* idle/discovering baseline (START_DISCOVERY, 15 s connecting timer) is   *)
(* called the "discovery" variant here; the one with the                   *)
(* advertising/discovering baseline (FIND_DEVICES, previousMode) is the    *)
(* "advertising" variant.  Time is counted in milliseconds.                *)
(***************************************************************************)
EXTENDS Integers, Sequences, FiniteSets, TLC

\* ------------------------------------------------------------------------
\* Bounds of the model
\* ------------------------------------------------------------------------
\* how long the clock is followed within one state
MaxElapsed == 21000
\* granularity of the passage of time
TickMs == 1000
\* largest merge count carried by an ack event
MaxMerged == 1
\* number of local writes (creations and updates) over both devices
MaxWrites == 2
\* how far Date.now() advances
MaxClock == 1
\* number of texts one device can have in flight towards it
MaxInbox == 2

\* applySyncData calls followed on one store
MaxApplies == 2
\* texts the transport delivers to the device
MaxReceived == 2
\* asynchronous driver functions in flight at once
MaxTasks == 2
\* handleModeChange calls in flight at once
MaxModeTasks == 2

\* ------------------------------------------------------------------------
\* Values
\* ------------------------------------------------------------------------
\* null of a `string | null` field
Null == "null"
\* null of the `MergeResult | null` field
NullResult == [isNull |-> TRUE]
\* the `error?: string` of SYNC_ACK_RECEIVED left out
Undefined == "undefined"
\* no delayed transition is scheduled
NoTimer == [state |-> "none", delay |-> 0, left |-> 0]
\* nothing has been delivered to the actor yet
NoEvent == [type |-> "xstate.init"]
\* time passed and no delayed transition was due
ClockTick == [type |-> "clock.tick"]

Variants == {"discovery", "advertising"}
PeerIds == {"peer-123", "peer-456"}
Errors == {"Connection failed", "Database error"}
DeviceName == "Test Device"
TimeoutMessage == "Connection timed out. The invitation may have been declined."
SyncFailedMessage == "Sync failed"

\* the delays of the `after` transitions, in ms
ConnectingDelay == 15000
ResultDelay == 2000

SyncingSubstates == {"syncing.connecting", "syncing.requesting",
                     "syncing.responding", "syncing.processingResponse",
                     "syncing.processingData", "syncing.awaitingAck"}

VARIABLES
    variant,    \* which machine definition the actor runs
    snapshot,   \* actor.getSnapshot(): [value, context]
    timer,      \* the delayed transition scheduled by the current state, or NoTimer
    elapsed,    \* observer: ms passed since snapshot.value was entered
    lastEvent,  \* observer: what the last step delivered to the actor (an
                \* event, or ClockTick when time passed and nothing was due)
    \* two devices, each running the machine, the driver and a local store
    actors,     \* per device: the snapshot of its machine
    db,         \* per device: the accounts and transactions tables
    inbox,      \* per device: the texts the transport has yet to deliver to it
    effects,    \* per device: the driver effect the last transition left to run
    localAck,   \* per device: the merge counts of a scheduled local ack, or NullResult
    wallClock,  \* Date.now()
    writes,     \* number of local writes so far (also the source of fresh ids)
    dirty,      \* observer: a local write happened while a session was open
    \* one store and the library functions called on it
    localStore, \* the tables of the store the functions read and write
    incoming,   \* the remote collections handed to the merge functions
    payload,    \* the text handed to parseSyncMessage
    txn,        \* the transaction of an applySyncData call in progress
    ret,        \* what the last call returned
    \* one device: its machine (snapshot), its store (localStore), the driver
    \* hook and the transport underneath it
    receivedMessages, \* the texts the transport has delivered, oldest first
    processed,  \* length of receivedMessages when the message effect last ran
    tasks,      \* the asynchronous driver functions that have yet to finish
    outbox,     \* observer: the messages handed to the transport, in order
    handled,    \* observer: indices of the texts handleSyncMessage was called for
    failed,     \* observer: a driver step has thrown in the session now open
    ackTimer,   \* the counts of the setTimeout of the SYNC_DATA case, or NullResult
    modeTasks,  \* the handleModeChange calls in flight: the calls each has left
    transport   \* whether advertising / discovery is active on the transport

machineVars == <<variant, snapshot, timer, elapsed, lastEvent>>

syncVars == <<actors, db, inbox, effects, localAck, wallClock, writes, dirty>>

callVars == <<localStore, incoming, payload, txn, ret>>

driverVars == <<receivedMessages, processed, tasks, outbox, handled, failed,
                ackTimer, modeTasks, transport>>

vars == <<machineVars, syncVars, callVars, driverVars>>

\* ------------------------------------------------------------------------
\* Actions of the machine (setup({ actions }))
\* ------------------------------------------------------------------------
\* slip: the inbound peer is recorded as the pending peer
assignSyncingPeer_bug(context, peerId) == [context EXCEPT !.pendingSyncPeerId = peerId]

assignSyncingPeer(context, peerId) == [context EXCEPT !.syncingPeerId = peerId]

\* slip: the chosen peer is recorded as the syncing peer at once
assignPendingSyncPeer_bug(context, peerId) == [context EXCEPT !.syncingPeerId = peerId]

assignPendingSyncPeer(context, peerId) == [context EXCEPT !.pendingSyncPeerId = peerId]

clearPendingSyncPeer(context) == [context EXCEPT !.pendingSyncPeerId = Null]

\* slip: pending is cleared before it is copied
promotePendingToSyncing_bug(context) ==
    [context EXCEPT !.syncingPeerId = Null, !.pendingSyncPeerId = Null]

promotePendingToSyncing(context) ==
    [context EXCEPT !.syncingPeerId = context.pendingSyncPeerId,
                    !.pendingSyncPeerId = Null]

clearSyncingPeer(context) == [context EXCEPT !.syncingPeerId = Null]

\* slip: the default message is recorded instead of the carried one
assignError_bug(context, error) == [context EXCEPT !.lastError = SyncFailedMessage]

assignError(context, error) == [context EXCEPT !.lastError = error]

\* slip: the error is left in the context
clearError_bug(context) == context

clearError(context) == [context EXCEPT !.lastError = Null]

\* slip: the two counts are stored crosswise
assignMergeResult_bug(context, accountsMerged, transactionsMerged) ==
    [context EXCEPT !.mergeResult = [accountsMerged |-> transactionsMerged,
                                     transactionsMerged |-> accountsMerged]]

assignMergeResult(context, accountsMerged, transactionsMerged) ==
    [context EXCEPT !.mergeResult = [accountsMerged |-> accountsMerged,
                                     transactionsMerged |-> transactionsMerged]]

clearMergeResult(context) == [context EXCEPT !.mergeResult = NullResult]

savePreviousModeAdvertising(context) == [context EXCEPT !.previousMode = "advertising"]

savePreviousModeDiscovering(context) == [context EXCEPT !.previousMode = "discovering"]

\* ------------------------------------------------------------------------
\* Guards (setup({ guards }))
\* ------------------------------------------------------------------------
\* slip: the guard only asks whether some peer is pending (hasPendingSyncPeer)
isPendingPeer_bug(context, event) ==
    IF event.type # "PEER_CONNECTED" THEN FALSE
    ELSE context.pendingSyncPeerId # Null

isPendingPeer(context, event) ==
    IF event.type # "PEER_CONNECTED" THEN FALSE
    ELSE context.pendingSyncPeerId = event.peerId

\* ------------------------------------------------------------------------
\* Result of looking up a transition: taken or not, and the snapshot after it
\* ------------------------------------------------------------------------
Goto(target, context) == [taken |-> TRUE, value |-> target, context |-> context]

Ignored(s) == [taken |-> FALSE, value |-> s.value, context |-> s.context]

IsAfter(event, state, delay) ==
    event.type = "xstate.after" /\ event.state = state /\ event.delay = delay

\* ------------------------------------------------------------------------
\* State nodes of the discovery variant: event -> transition
\* ------------------------------------------------------------------------
\* slip: idle takes START_SYNC as the baseline does
idle_bug(s, event) ==
    CASE event.type = "START_DISCOVERY" -> Goto("discovering", s.context)
      [] event.type = "START_SYNC" ->
            Goto("syncing.connecting", assignPendingSyncPeer(s.context, event.peerId))
      [] OTHER -> Ignored(s)

idle(s, event) ==
    IF event.type = "START_DISCOVERY" THEN Goto("discovering", s.context)
    ELSE Ignored(s)

discovering(s, event) ==
    CASE event.type = "STOP_DISCOVERY" -> Goto("idle", s.context)
      [] event.type = "START_SYNC" ->
            Goto("syncing.connecting", assignPendingSyncPeer(s.context, event.peerId))
      [] event.type = "SYNC_REQUESTED" ->
            Goto("syncing.responding", assignSyncingPeer(s.context, event.peerId))
      [] OTHER -> Ignored(s)

\* slip: both events target processingResponse
syncing_bug(s, event) ==
    CASE event.type = "SYNC_RESPONSE_RECEIVED" ->
            Goto("syncing.processingResponse", s.context)
      [] event.type = "SYNC_DATA_RECEIVED" ->
            Goto("syncing.processingResponse", s.context)
      [] event.type = "SYNC_ACK_RECEIVED" ->
            IF event.success
            THEN Goto("success", assignMergeResult(s.context, event.accountsMerged,
                                                   event.transactionsMerged))
            ELSE Goto("error", assignError(s.context,
                                 IF event.error = Undefined THEN SyncFailedMessage
                                 ELSE event.error))
      [] event.type = "SYNC_ERROR" ->
            Goto("error", assignError(s.context, event.error))
      [] OTHER -> Ignored(s)

\* syncing.on: transitions shared by every substate of syncing
syncing(s, event) ==
    CASE event.type = "SYNC_RESPONSE_RECEIVED" ->
            Goto("syncing.processingResponse", s.context)
      [] event.type = "SYNC_DATA_RECEIVED" ->
            Goto("syncing.processingData", s.context)
      [] event.type = "SYNC_ACK_RECEIVED" ->
            IF event.success
            THEN Goto("success", assignMergeResult(s.context, event.accountsMerged,
                                                   event.transactionsMerged))
            ELSE Goto("error", assignError(s.context,
                                 IF event.error = Undefined THEN SyncFailedMessage
                                 ELSE event.error))
      [] event.type = "SYNC_ERROR" ->
            Goto("error", assignError(s.context, event.error))
      [] OTHER -> Ignored(s)

\* slip: CONNECTION_FAILED forgets clearPendingSyncPeer
connectingOn_bug(s, event) ==
    CASE event.type = "PEER_CONNECTED" /\ isPendingPeer(s.context, event) ->
            Goto("syncing.requesting", promotePendingToSyncing(s.context))
      [] event.type = "CONNECTION_FAILED" ->
            Goto("error", assignError(s.context, event.error))
      [] OTHER -> syncing(s, event)

\* syncing.connecting.on, with fall-through to the parent's transitions
connectingOn(s, event) ==
    CASE event.type = "PEER_CONNECTED" /\ isPendingPeer(s.context, event) ->
            Goto("syncing.requesting", promotePendingToSyncing(s.context))
      [] event.type = "CONNECTION_FAILED" ->
            Goto("error", assignError(clearPendingSyncPeer(s.context), event.error))
      [] OTHER -> syncing(s, event)

\* syncing.connecting of the discovery variant: its `after` and its `on`
connecting(s, event) ==
    IF IsAfter(event, "syncing.connecting", ConnectingDelay)
    THEN Goto("error", assignError(clearPendingSyncPeer(s.context), TimeoutMessage))
    ELSE connectingOn(s, event)

success(s, event) ==
    IF IsAfter(event, "success", ResultDelay) \/ event.type = "RESET"
    THEN Goto("idle", clearMergeResult(clearSyncingPeer(s.context)))
    ELSE Ignored(s)

error(s, event) ==
    IF IsAfter(event, "error", ResultDelay) \/ event.type = "RESET"
    THEN Goto("idle", clearError(clearSyncingPeer(s.context)))
    ELSE Ignored(s)

\* ------------------------------------------------------------------------
\* State nodes of the advertising variant
\* ------------------------------------------------------------------------
advertising(s, event) ==
    CASE event.type = "FIND_DEVICES" -> Goto("discovering", s.context)
      [] event.type = "START_SYNC" ->
            Goto("syncing.connecting",
                 assignPendingSyncPeer(savePreviousModeAdvertising(s.context),
                                       event.peerId))
      [] event.type = "SYNC_REQUESTED" ->
            Goto("syncing.responding",
                 assignSyncingPeer(savePreviousModeAdvertising(s.context),
                                   event.peerId))
      [] OTHER -> Ignored(s)

discoveringAdv(s, event) ==
    CASE event.type = "STOP_DISCOVERING" -> Goto("advertising", s.context)
      [] event.type = "START_SYNC" ->
            Goto("syncing.connecting",
                 assignPendingSyncPeer(savePreviousModeDiscovering(s.context),
                                       event.peerId))
      [] OTHER -> Ignored(s)

\* the baseline to return to: the guarded first candidate, else the second
previousBaseline(context) ==
    IF context.previousMode = "discovering" THEN "discovering" ELSE "advertising"

successAdv(s, event) ==
    IF IsAfter(event, "success", ResultDelay) \/ event.type = "RESET"
    THEN Goto(previousBaseline(s.context), clearMergeResult(clearSyncingPeer(s.context)))
    ELSE Ignored(s)

errorAdv(s, event) ==
    IF IsAfter(event, "error", ResultDelay) \/ event.type = "RESET"
    THEN Goto(previousBaseline(s.context), clearError(clearSyncingPeer(s.context)))
    ELSE Ignored(s)

\* ------------------------------------------------------------------------
\* The two machines: createMachine({ states })
\* ------------------------------------------------------------------------
syncMachine(s, event) ==
    CASE s.value = "idle" -> idle(s, event)
      [] s.value = "discovering" -> discovering(s, event)
      [] s.value = "syncing.connecting" -> connecting(s, event)
      [] s.value \in SyncingSubstates \ {"syncing.connecting"} -> syncing(s, event)
      [] s.value = "success" -> success(s, event)
      [] s.value = "error" -> error(s, event)

syncMachineAdv(s, event) ==
    CASE s.value = "advertising" -> advertising(s, event)
      [] s.value = "discovering" -> discoveringAdv(s, event)
      [] s.value = "syncing.connecting" -> connectingOn(s, event)
      [] s.value \in SyncingSubstates \ {"syncing.connecting"} -> syncing(s, event)
      [] s.value = "success" -> successAdv(s, event)
      [] s.value = "error" -> errorAdv(s, event)

Transition(v, s, event) ==
    IF v = "discovery" THEN syncMachine(s, event) ELSE syncMachineAdv(s, event)

\* the `after` of a state node: the delay of its delayed transition, 0 if none
afterDelay(v, value) ==
    CASE value = "syncing.connecting" /\ v = "discovery" -> ConnectingDelay
      [] value \in {"success", "error"} -> ResultDelay
      [] OTHER -> 0

\* slip: a state without `after` leaves the timer of the state before it running
timerAfter_bug(v, r, old) ==
    IF ~r.taken THEN old
    ELSE IF afterDelay(v, r.value) = 0 THEN old
    ELSE [state |-> r.value, delay |-> afterDelay(v, r.value),
          left |-> afterDelay(v, r.value)]

\* leaving a state cancels its delayed transition, entering one schedules its own
timerAfter(v, r, old) ==
    IF ~r.taken THEN old
    ELSE IF afterDelay(v, r.value) = 0 THEN NoTimer
    ELSE [state |-> r.value, delay |-> afterDelay(v, r.value),
          left |-> afterDelay(v, r.value)]

\* the context function of createMachine
initialContext(v) ==
    IF v = "discovery"
    THEN [deviceName |-> DeviceName, syncingPeerId |-> Null,
          pendingSyncPeerId |-> Null, lastError |-> Null,
          mergeResult |-> NullResult]
    ELSE [deviceName |-> DeviceName, syncingPeerId |-> Null,
          pendingSyncPeerId |-> Null, lastError |-> Null,
          mergeResult |-> NullResult, previousMode |-> "advertising"]

initialValue(v) == IF v = "discovery" THEN "idle" ELSE "advertising"

\* ------------------------------------------------------------------------
\* The local store and the storage-level merge
\* ------------------------------------------------------------------------
Devices == {"A", "B"}

\* the other device, which is also the peerId under which a device knows it
Peer(d) == IF d = "A" THEN "B" ELSE "A"

\* `name` stands for the columns an UPDATE from sync overwrites together
\* (name, target_amount, goal_enabled, archived_at); `amount` likewise for
\* account_id, amount, type and related_account_id of a transaction
Names == {"n1", "n2"}
Amounts == {100}

EmptyDb == [accounts |-> {}, transactions |-> {}]

\* SELECT updated_at FROM <table> WHERE id = ?  (the set of matching rows)
existing(table, id) == {row \in table : row.id = id}

\* SELECT * FROM <table>: the rows as an array
RECURSIVE getAllRows(_)
getAllRows(table) ==
    IF table = {} THEN <<>>
    ELSE LET first == CHOOSE row \in table : \A other \in table : row.id <= other.id
         IN <<first>> \o getAllRows(table \ {first})

\* slip: the UPDATE writes updated_at and leaves the other columns
upsertAccountFromSync_bug(table, account) ==
    LET found == existing(table, account.id) IN
    IF found = {} THEN table \cup {account}
    ELSE LET local == CHOOSE row \in found : TRUE IN
         IF account.updated_at > local.updated_at
         THEN (table \ {local}) \cup
              {[local EXCEPT !.updated_at = account.updated_at]}
         ELSE table

upsertAccountFromSync(table, account) ==
    LET found == existing(table, account.id) IN
    IF found = {} THEN table \cup {account}
    ELSE LET local == CHOOSE row \in found : TRUE IN
         IF account.updated_at > local.updated_at
         THEN (table \ {local}) \cup
              {[local EXCEPT !.name = account.name, !.updated_at = account.updated_at]}
         ELSE table

\* slip: the UPDATE writes updated_at and leaves the other columns
upsertTransactionFromSync_bug(table, transaction) ==
    LET found == existing(table, transaction.id) IN
    IF found = {} THEN table \cup {transaction}
    ELSE LET local == CHOOSE row \in found : TRUE IN
         IF transaction.updated_at > local.updated_at
         THEN (table \ {local}) \cup
              {[local EXCEPT !.updated_at = transaction.updated_at]}
         ELSE table

upsertTransactionFromSync(table, transaction) ==
    LET found == existing(table, transaction.id) IN
    IF found = {} THEN table \cup {transaction}
    ELSE LET local == CHOOSE row \in found : TRUE IN
         IF transaction.updated_at > local.updated_at
         THEN (table \ {local}) \cup
              {[local EXCEPT !.account_id = transaction.account_id,
                             !.amount = transaction.amount,
                             !.updated_at = transaction.updated_at]}
         ELSE table

\* slip: a remote row with the same updated_at is handed to the upsert too
isMerged_bug(table, remote) ==
    LET found == existing(table, remote.id) IN
    \/ found = {}
    \/ \E local \in found : remote.updated_at >= local.updated_at

\* does the loop of applySyncData hand this remote row to the upsert?
isMerged(table, remote) ==
    LET found == existing(table, remote.id) IN
    \/ found = {}
    \/ \E local \in found : remote.updated_at > local.updated_at

\* the accounts loop of applySyncData
RECURSIVE applyAccounts(_, _, _)
applyAccounts(table, accounts, accountsMerged) ==
    IF accounts = <<>> THEN [table |-> table, merged |-> accountsMerged]
    ELSE IF isMerged(table, Head(accounts))
         THEN applyAccounts(upsertAccountFromSync(table, Head(accounts)),
                            Tail(accounts), accountsMerged + 1)
         ELSE applyAccounts(table, Tail(accounts), accountsMerged)

\* the transactions loop of applySyncData
RECURSIVE applyTransactions(_, _, _)
applyTransactions(table, transactions, transactionsMerged) ==
    IF transactions = <<>> THEN [table |-> table, merged |-> transactionsMerged]
    ELSE IF isMerged(table, Head(transactions))
         THEN applyTransactions(upsertTransactionFromSync(table, Head(transactions)),
                                Tail(transactions), transactionsMerged + 1)
         ELSE applyTransactions(table, Tail(transactions), transactionsMerged)

applySyncData(store, accounts, transactions) ==
    LET a == applyAccounts(store.accounts, accounts, 0)
        t == applyTransactions(store.transactions, transactions, 0)
    IN [db |-> [accounts |-> a.table, transactions |-> t.table],
        accountsMerged |-> a.merged,
        transactionsMerged |-> t.merged]

\* ------------------------------------------------------------------------
\* The wire messages
\* ------------------------------------------------------------------------
\* the protocol module exists in two copies: the file the driver imports
\* (src/db/sync.ts) and the copy with the protocol version (part_019)
SyncModules == {"db/sync.ts", "part_019"}

\* SyncMessageType of part_019
MessageTypes == {"SYNC_REQUEST", "SYNC_RESPONSE", "SYNC_DATA", "SYNC_ACK",
                 "SYNC_VERSION_MISMATCH"}

\* the tags parseSyncMessage of each copy looks for
knownTypes(module) ==
    IF module = "part_019" THEN MessageTypes
    ELSE {"SYNC_REQUEST", "SYNC_RESPONSE", "SYNC_DATA", "SYNC_ACK"}

createSyncRequest == [type |-> "SYNC_REQUEST", lastSyncTime |-> 0]

createSyncResponse(accounts, transactions) ==
    [type |-> "SYNC_RESPONSE", accounts |-> accounts, transactions |-> transactions]

createSyncData(accounts, transactions) ==
    [type |-> "SYNC_DATA", accounts |-> accounts, transactions |-> transactions]

createSyncAck(ok, accountsMerged, transactionsMerged) ==
    [type |-> "SYNC_ACK", success |-> ok, accountsMerged |-> accountsMerged,
     transactionsMerged |-> transactionsMerged, error |-> Undefined]

\* A text is [parses, data]: whether JSON.parse accepts it and, if so, the
\* value it yields, kept as [typeof, truthy, fields], where fields is the
\* record of the value's own properties.
JSONstringify(message) ==
    [parses |-> TRUE,
     data |-> [typeof |-> "object", truthy |-> TRUE, fields |-> message]]

\* the null parseSyncMessage returns
NoMessage == [type |-> Null]

parseSyncMessage(module, text) ==
    IF ~text.parses THEN NoMessage
    ELSE LET data == text.data IN
         IF /\ data.truthy
            /\ data.typeof = "object"
            /\ "type" \in DOMAIN data.fields
            /\ data.fields.type \in knownTypes(module)
         THEN data.fields
         ELSE NoMessage

\* no applySyncData call is in progress
NoTxn == [active |-> FALSE, applied |-> 0]

\* nothing has been called yet
NoCall == [fn |-> "none"]

\* the store and the calls on it when nothing has happened
CallIdle ==
    /\ localStore = EmptyDb
    /\ incoming = [accounts |-> <<>>, transactions |-> <<>>]
    /\ payload = JSONstringify(createSyncRequest)
    /\ txn = NoTxn
    /\ ret = NoCall

\* the driver before the hook is mounted
DriverIdle ==
    /\ receivedMessages = <<>>
    /\ processed = 0
    /\ tasks = <<>>
    /\ outbox = {}
    /\ handled = <<>>
    /\ failed = FALSE
    /\ ackTimer = NullResult
    /\ modeTasks = <<>>
    /\ transport = [advertising |-> FALSE, discovering |-> FALSE]

\* the state of the two devices before anything has happened
SyncIdle ==
    /\ actors = [d \in Devices |->
                    [value |-> initialValue("advertising"),
                     context |-> initialContext("advertising")]]
    /\ db = [d \in Devices |-> EmptyDb]
    /\ inbox = [d \in Devices |-> <<>>]
    /\ effects = [d \in Devices |-> "none"]
    /\ localAck = [d \in Devices |-> NullResult]
    /\ wallClock = 0
    /\ writes = 0
    /\ dirty = FALSE

\* ------------------------------------------------------------------------
\* The actor: actor.send(event), and the clock that fires delayed transitions
\* ------------------------------------------------------------------------
Init ==
    /\ variant \in Variants
    /\ snapshot = [value |-> initialValue(variant), context |-> initialContext(variant)]
    /\ timer = NoTimer
    /\ elapsed = 0
    /\ lastEvent = NoEvent
    /\ SyncIdle
    /\ CallIdle
    /\ DriverIdle

\* actor.send(event): one event is run to completion
Send(event) ==
    LET r == Transition(variant, snapshot, event) IN
    /\ snapshot' = [value |-> r.value, context |-> r.context]
    /\ timer' = timerAfter(variant, r, timer)
    /\ elapsed' = IF r.taken THEN 0 ELSE elapsed
    /\ lastEvent' = event
    /\ UNCHANGED <<variant, syncVars, callVars, driverVars>>

StartDiscovery ==
    /\ variant = "discovery"
    /\ Send([type |-> "START_DISCOVERY"])

StopDiscovery ==
    /\ variant = "discovery"
    /\ Send([type |-> "STOP_DISCOVERY"])

FindDevices ==
    /\ variant = "advertising"
    /\ Send([type |-> "FIND_DEVICES"])

StopDiscovering ==
    /\ variant = "advertising"
    /\ Send([type |-> "STOP_DISCOVERING"])

StartSync ==
    /\ \E p \in PeerIds : Send([type |-> "START_SYNC", peerId |-> p])

SyncRequested ==
    /\ \E p \in PeerIds : Send([type |-> "SYNC_REQUESTED", peerId |-> p])

PeerConnected ==
    /\ \E p \in PeerIds : Send([type |-> "PEER_CONNECTED", peerId |-> p])

ConnectionFailed ==
    /\ \E e \in Errors : Send([type |-> "CONNECTION_FAILED", error |-> e])

\* the accounts and transactions carried by the two events are not read by
\* the machine and are left out
SyncResponseReceived ==
    /\ \E p \in PeerIds : Send([type |-> "SYNC_RESPONSE_RECEIVED", peerId |-> p])

SyncDataReceived ==
    /\ \E p \in PeerIds : Send([type |-> "SYNC_DATA_RECEIVED", peerId |-> p])

SyncAckReceived ==
    /\ \E ok \in BOOLEAN, a \in 0..MaxMerged, t \in 0..MaxMerged,
          e \in Errors \cup {Undefined} :
        Send([type |-> "SYNC_ACK_RECEIVED", success |-> ok, accountsMerged |-> a,
              transactionsMerged |-> t, error |-> e])

SyncError ==
    /\ \E e \in Errors : Send([type |-> "SYNC_ERROR", error |-> e])

Reset ==
    /\ Send([type |-> "RESET"])

\* TickMs pass; a delayed transition that has become due is delivered to the
\* machine as its `xstate.after` event
Tick ==
    /\ elapsed < MaxElapsed
    /\ IF timer # NoTimer /\ timer.left - TickMs <= 0
       THEN LET event == [type |-> "xstate.after", state |-> timer.state,
                          delay |-> timer.delay]
                r == Transition(variant, snapshot, event)
            IN /\ snapshot' = [value |-> r.value, context |-> r.context]
               /\ timer' = timerAfter(variant, r, NoTimer)
               /\ elapsed' = IF r.taken THEN 0 ELSE elapsed + TickMs
               /\ lastEvent' = event
       ELSE /\ elapsed' = elapsed + TickMs
            /\ timer' = IF timer = NoTimer THEN NoTimer
                        ELSE [timer EXCEPT !.left = timer.left - TickMs]
            /\ lastEvent' = ClockTick
            /\ UNCHANGED snapshot
    /\ UNCHANGED <<variant, syncVars, callVars, driverVars>>

Next ==
    \/ StartDiscovery
    \/ StopDiscovery
    \/ FindDevices
    \/ StopDiscovering
    \/ StartSync
    \/ SyncRequested
    \/ PeerConnected
    \/ ConnectionFailed
    \/ SyncResponseReceived
    \/ SyncDataReceived
    \/ SyncAckReceived
    \/ SyncError
    \/ Reset
    \/ Tick

Spec == Init /\ [][Next]_vars

\* the same actor with time that keeps passing: a delayed transition that is
\* scheduled is delivered once its delay has elapsed
SpecTimers == Init /\ [][Next]_vars /\ WF_vars(Tick)

\* ------------------------------------------------------------------------
\* Two devices: the session driver (useSyncMachine), the transport between
\* them and the local writes of the application
\* ------------------------------------------------------------------------
InitSync ==
    /\ variant = "advertising"
    /\ snapshot = [value |-> initialValue(variant), context |-> initialContext(variant)]
    /\ timer = NoTimer
    /\ elapsed = 0
    /\ lastEvent = NoEvent
    /\ SyncIdle
    /\ CallIdle
    /\ DriverIdle

Baseline(value) == value \in {"idle", "advertising", "discovering"}

\* the driver effect that reacts to the machine having entered `value`
entryEffect(value) ==
    CASE value = "syncing.requesting" -> "sendRequest"
      [] value = "syncing.responding" -> "sendResponse"
      [] OTHER -> "none"

\* send(event) on device d: its snapshot afterwards and the effect left to run
sent(d, event) ==
    LET r == Transition("advertising", actors[d], event) IN
    [actor |-> [value |-> r.value, context |-> r.context],
     effect |-> IF r.taken THEN entryEffect(r.value) ELSE effects[d]]

\* a session is open while some device is away from its baseline
SessionOpen(as) == \E d \in Devices : ~Baseline(as[d].value)

\* device d delivers `event` to its machine; nothing else happens
Deliver(d, event) ==
    LET after == sent(d, event) IN
    /\ actors' = [actors EXCEPT ![d] = after.actor]
    /\ effects' = [effects EXCEPT ![d] = after.effect]
    /\ dirty' = (dirty /\ SessionOpen(actors'))
    /\ UNCHANGED <<db, inbox, localAck, wallClock, writes, machineVars, callVars, driverVars>>

findDevices(d) ==
    /\ Deliver(d, [type |-> "FIND_DEVICES"])

stopFindingDevices(d) ==
    /\ Deliver(d, [type |-> "STOP_DISCOVERING"])

\* startSync: START_SYNC now; the outcome of connect() arrives later
startSync(d) ==
    /\ Deliver(d, [type |-> "START_SYNC", peerId |-> Peer(d)])

\* the effect watching connectedPeers: the pending peer has connected
watchPeerConnections(d) ==
    /\ actors[d].context.pendingSyncPeerId # Null
    /\ actors[d].value = "syncing.connecting"
    /\ Deliver(d, [type |-> "PEER_CONNECTED",
                   peerId |-> actors[d].context.pendingSyncPeerId])

\* startSync: connect() was rejected
connectRejected(d) ==
    /\ actors[d].value = "syncing.connecting"
    /\ Deliver(d, [type |-> "CONNECTION_FAILED", error |-> "Connection failed"])

reset(d) ==
    /\ Deliver(d, [type |-> "RESET"])

\* the 2 s delayed transition out of success or error
resultExpires(d) ==
    /\ actors[d].value \in {"success", "error"}
    /\ Deliver(d, [type |-> "xstate.after", state |-> actors[d].value,
                   delay |-> ResultDelay])

\* the effect of entering requesting
sendRequest(d) ==
    /\ effects[d] = "sendRequest"
    /\ actors[d].value = "syncing.requesting"
    /\ actors[d].context.syncingPeerId # Null
    /\ Len(inbox[actors[d].context.syncingPeerId]) < MaxInbox
    /\ inbox' = [inbox EXCEPT ![actors[d].context.syncingPeerId] =
                                  Append(@, JSONstringify(createSyncRequest))]
    /\ effects' = [effects EXCEPT ![d] = "none"]
    /\ UNCHANGED <<actors, db, localAck, wallClock, writes, dirty, machineVars, callVars, driverVars>>

\* the effect of entering responding
sendResponse(d) ==
    /\ effects[d] = "sendResponse"
    /\ actors[d].value = "syncing.responding"
    /\ actors[d].context.syncingPeerId # Null
    /\ Len(inbox[actors[d].context.syncingPeerId]) < MaxInbox
    /\ inbox' = [inbox EXCEPT ![actors[d].context.syncingPeerId] =
                    Append(@, JSONstringify(
                        createSyncResponse(getAllRows(db[d].accounts),
                                           getAllRows(db[d].transactions))))]
    /\ effects' = [effects EXCEPT ![d] = "none"]
    /\ UNCHANGED <<actors, db, localAck, wallClock, writes, dirty, machineVars, callVars, driverVars>>

\* handleSyncMessage(peerId, message) on device d
handleSyncMessage(d, peerId, message) ==
    CASE message.type = "SYNC_REQUEST" /\ actors[d].value = "advertising" ->
            LET after == sent(d, [type |-> "SYNC_REQUESTED", peerId |-> peerId]) IN
            /\ actors' = [actors EXCEPT ![d] = after.actor]
            /\ effects' = [effects EXCEPT ![d] = after.effect]
            /\ inbox' = [inbox EXCEPT ![d] = Tail(@)]
            /\ UNCHANGED <<db, localAck>>
      [] message.type = "SYNC_RESPONSE" /\ actors[d].value = "syncing.requesting" ->
            LET merged == applySyncData(db[d], message.accounts, message.transactions)
                syncData == createSyncData(getAllRows(merged.db.accounts),
                                           getAllRows(merged.db.transactions))
                after == sent(d, [type |-> "SYNC_RESPONSE_RECEIVED", peerId |-> peerId])
            IN
            /\ db' = [db EXCEPT ![d] = merged.db]
            /\ inbox' = [inbox EXCEPT ![d] = Tail(@), ![peerId] = Append(@, JSONstringify(syncData))]
            /\ actors' = [actors EXCEPT ![d] = after.actor]
            /\ effects' = [effects EXCEPT ![d] = after.effect]
            /\ UNCHANGED localAck
      [] message.type = "SYNC_DATA" /\ actors[d].value = "syncing.responding" ->
            LET merged == applySyncData(db[d], message.accounts, message.transactions)
                ack == createSyncAck(TRUE, merged.accountsMerged,
                                     merged.transactionsMerged)
                after == sent(d, [type |-> "SYNC_DATA_RECEIVED", peerId |-> peerId])
            IN
            /\ db' = [db EXCEPT ![d] = merged.db]
            /\ inbox' = [inbox EXCEPT ![d] = Tail(@), ![peerId] = Append(@, JSONstringify(ack))]
            /\ actors' = [actors EXCEPT ![d] = after.actor]
            /\ effects' = [effects EXCEPT ![d] = after.effect]
            /\ localAck' = [localAck EXCEPT ![d] =
                               [accountsMerged |-> merged.accountsMerged,
                                transactionsMerged |-> merged.transactionsMerged]]
      [] message.type = "SYNC_ACK" ->
            LET after == sent(d, [type |-> "SYNC_ACK_RECEIVED",
                                  success |-> message.success,
                                  accountsMerged |-> message.accountsMerged,
                                  transactionsMerged |-> message.transactionsMerged,
                                  error |-> message.error]) IN
            /\ actors' = [actors EXCEPT ![d] = after.actor]
            /\ effects' = [effects EXCEPT ![d] = after.effect]
            /\ inbox' = [inbox EXCEPT ![d] = Tail(@)]
            /\ UNCHANGED <<db, localAck>>
      [] OTHER ->
            /\ inbox' = [inbox EXCEPT ![d] = Tail(@)]
            /\ UNCHANGED <<actors, effects, db, localAck>>

\* the transport delivers the next text to device d and the message effect
\* of the driver handles it
receive(d) ==
    /\ inbox[d] # <<>>
    /\ Len(inbox[Peer(d)]) < MaxInbox
    /\ handleSyncMessage(d, Peer(d), parseSyncMessage("db/sync.ts", Head(inbox[d])))
    /\ dirty' = (dirty /\ SessionOpen(actors'))
    /\ UNCHANGED <<wallClock, writes, machineVars, callVars, driverVars>>

\* the setTimeout of the SYNC_DATA case: the responder's local ack
localAckFires(d) ==
    /\ localAck[d] # NullResult
    /\ LET after == sent(d, [type |-> "SYNC_ACK_RECEIVED", success |-> TRUE,
                             accountsMerged |-> localAck[d].accountsMerged,
                             transactionsMerged |-> localAck[d].transactionsMerged,
                             error |-> Undefined]) IN
       /\ actors' = [actors EXCEPT ![d] = after.actor]
       /\ effects' = [effects EXCEPT ![d] = after.effect]
    /\ localAck' = [localAck EXCEPT ![d] = NullResult]
    /\ dirty' = (dirty /\ SessionOpen(actors'))
    /\ UNCHANGED <<db, inbox, wallClock, writes, machineVars, callVars, driverVars>>

\* a local write of the application on device d
LocalWrite(d, store) ==
    /\ writes < MaxWrites
    /\ writes' = writes + 1
    /\ db' = [db EXCEPT ![d] = store]
    /\ dirty' = (dirty \/ SessionOpen(actors))
    /\ UNCHANGED <<actors, inbox, effects, localAck, wallClock, machineVars, callVars, driverVars>>

createAccount(d) ==
    /\ \E name \in Names :
        LocalWrite(d, [db[d] EXCEPT !.accounts = @ \cup
            {[id |-> writes + 1, name |-> name,
              created_at |-> wallClock, updated_at |-> wallClock]}])

updateAccount(d) ==
    /\ \E account \in db[d].accounts, name \in Names :
        LocalWrite(d, [db[d] EXCEPT !.accounts = (@ \ {account}) \cup
            {[account EXCEPT !.name = name, !.updated_at = wallClock]}])

createTransaction(d) ==
    /\ \E account \in db[d].accounts, amount \in Amounts :
        LocalWrite(d, [db[d] EXCEPT !.transactions = @ \cup
            {[id |-> writes + 1, account_id |-> account.id, amount |-> amount,
              created_at |-> wallClock, updated_at |-> wallClock]}])

\* Date.now() moves on
ClockAdvances ==
    /\ wallClock < MaxClock
    /\ wallClock' = wallClock + 1
    /\ UNCHANGED <<actors, db, inbox, effects, localAck, writes, dirty, machineVars, callVars, driverVars>>

NextSync ==
    \/ \E d \in Devices : findDevices(d)
    \/ \E d \in Devices : stopFindingDevices(d)
    \/ \E d \in Devices : startSync(d)
    \/ \E d \in Devices : watchPeerConnections(d)
    \/ \E d \in Devices : connectRejected(d)
    \/ \E d \in Devices : reset(d)
    \/ \E d \in Devices : resultExpires(d)
    \/ \E d \in Devices : sendRequest(d)
    \/ \E d \in Devices : sendResponse(d)
    \/ \E d \in Devices : receive(d)
    \/ \E d \in Devices : localAckFires(d)
    \/ \E d \in Devices : createAccount(d)
    \/ \E d \in Devices : updateAccount(d)
    \/ \E d \in Devices : createTransaction(d)
    \/ ClockAdvances

SpecSync == InitSync /\ [][NextSync]_vars

\* ------------------------------------------------------------------------
\* The merge classification (mergeAccounts, mergeTransactions)
\* ------------------------------------------------------------------------
\* new Map(rows.map((r) => [r.id, r])): a later entry replaces an earlier one
localMap(rows) ==
    [id \in {rows[i].id : i \in DOMAIN rows} |->
        rows[CHOOSE i \in DOMAIN rows :
                /\ rows[i].id = id
                /\ \A j \in DOMAIN rows : rows[j].id = id => j <= i]]

NoneClassified == [toInsert |-> <<>>, toUpdate |-> <<>>, keptLocal |-> 0]

\* slip: a remote record with the same updated_at is classified as an update
RECURSIVE mergeAccountsLoop_bug(_, _, _)
mergeAccountsLoop_bug(map, remoteAccounts, acc) ==
    IF remoteAccounts = <<>> THEN acc
    ELSE LET remote == Head(remoteAccounts) IN
         IF remote.id \notin DOMAIN map
         THEN mergeAccountsLoop_bug(map, Tail(remoteAccounts),
                                    [acc EXCEPT !.toInsert = Append(@, remote)])
         ELSE IF remote.updated_at >= map[remote.id].updated_at
         THEN mergeAccountsLoop_bug(map, Tail(remoteAccounts),
                                    [acc EXCEPT !.toUpdate = Append(@, remote)])
         ELSE mergeAccountsLoop_bug(map, Tail(remoteAccounts),
                                    [acc EXCEPT !.keptLocal = @ + 1])

\* the for loop of mergeAccounts
RECURSIVE mergeAccountsLoop(_, _, _)
mergeAccountsLoop(map, remoteAccounts, acc) ==
    IF remoteAccounts = <<>> THEN acc
    ELSE LET remote == Head(remoteAccounts) IN
         IF remote.id \notin DOMAIN map
         THEN mergeAccountsLoop(map, Tail(remoteAccounts),
                                [acc EXCEPT !.toInsert = Append(@, remote)])
         ELSE IF remote.updated_at > map[remote.id].updated_at
         THEN mergeAccountsLoop(map, Tail(remoteAccounts),
                                [acc EXCEPT !.toUpdate = Append(@, remote)])
         ELSE mergeAccountsLoop(map, Tail(remoteAccounts),
                                [acc EXCEPT !.keptLocal = @ + 1])

mergeAccounts_bug(localAccounts, remoteAccounts) ==
    mergeAccountsLoop_bug(localMap(localAccounts), remoteAccounts, NoneClassified)

mergeAccounts(localAccounts, remoteAccounts) ==
    mergeAccountsLoop(localMap(localAccounts), remoteAccounts, NoneClassified)

\* the for loop of mergeTransactions
RECURSIVE mergeTransactionsLoop(_, _, _)
mergeTransactionsLoop(map, remoteTransactions, acc) ==
    IF remoteTransactions = <<>> THEN acc
    ELSE LET remote == Head(remoteTransactions) IN
         IF remote.id \notin DOMAIN map
         THEN mergeTransactionsLoop(map, Tail(remoteTransactions),
                                    [acc EXCEPT !.toInsert = Append(@, remote)])
         ELSE IF remote.updated_at > map[remote.id].updated_at
         THEN mergeTransactionsLoop(map, Tail(remoteTransactions),
                                    [acc EXCEPT !.toUpdate = Append(@, remote)])
         ELSE mergeTransactionsLoop(map, Tail(remoteTransactions),
                                    [acc EXCEPT !.keptLocal = @ + 1])

mergeTransactions(localTransactions, remoteTransactions) ==
    mergeTransactionsLoop(localMap(localTransactions), remoteTransactions, NoneClassified)

\* ------------------------------------------------------------------------
\* One store and the calls made on it: the inputs
\* ------------------------------------------------------------------------
\* ids shared by the two sides of a merge
MergeIds == {1, 2}

\* what a remote transaction can carry besides the local amount
RemoteAmounts == {100, 250}

\* a row's created_at is written once, when the row is created (ids are
\* fresh uuids), so every version of a row carries the same created_at
AccountRows(names) ==
    [id : MergeIds, name : names, created_at : {0}, updated_at : 0..MaxClock]

TransactionRows(amounts) ==
    [id : {1}, account_id : {1}, amount : amounts, created_at : {0},
     updated_at : 0..MaxClock]

\* the tables over `rows`: id is the primary key
Tables(rows) == {t \in SUBSET rows : \A a, b \in t : a.id = b.id => a = b}

\* local rows have one content, remote rows vary: what matters to a merge is
\* whether the two sides differ
LocalStores ==
    {[accounts |-> a, transactions |-> t] :
        a \in Tables(AccountRows({"n1"})), t \in Tables(TransactionRows(Amounts))}

RemoteCollections ==
    {[accounts |-> getAllRows(a), transactions |-> getAllRows(t)] :
        a \in Tables(AccountRows(Names)), t \in Tables(TransactionRows(RemoteAmounts))}

\* JSON.parse of a text that is not a message
JSONvalue(typeof, truthy, fields) ==
    [parses |-> TRUE, data |-> [typeof |-> typeof, truthy |-> truthy, fields |-> fields]]

\* texts handed to parseSyncMessage
Payloads ==
    {[parses |-> FALSE,
      data |-> [typeof |-> "undefined", truthy |-> FALSE, fields |-> [none |-> TRUE]]],
     JSONvalue("object", FALSE, [none |-> TRUE]),
     JSONvalue("number", FALSE, [none |-> TRUE]),
     JSONvalue("number", TRUE, [none |-> TRUE]),
     JSONvalue("string", TRUE, [length |-> 12]),
     JSONvalue("boolean", TRUE, [none |-> TRUE]),
     JSONvalue("object", TRUE, [length |-> 0]),
     JSONvalue("object", TRUE, [kind |-> "SYNC_REQUEST"]),
     JSONstringify(createSyncRequest),
     JSONstringify(createSyncAck(TRUE, 0, 0))}
    \cup {JSONstringify([type |-> t, timestamp |-> 0]) :
            t \in MessageTypes \cup {"sync_request", "PING", ""}}

\* ------------------------------------------------------------------------
\* Calls on one store: the merge classification, parsing, and applySyncData
\* statement by statement with another task reading on the same connection
\* ------------------------------------------------------------------------
InitMerge ==
    /\ variant = "advertising"
    /\ snapshot = [value |-> initialValue(variant), context |-> initialContext(variant)]
    /\ timer = NoTimer
    /\ elapsed = 0
    /\ lastEvent = NoEvent
    /\ SyncIdle
    /\ DriverIdle
    /\ txn = NoTxn
    /\ ret = NoCall
    /\ \/ /\ localStore \in LocalStores
          /\ incoming \in RemoteCollections
          /\ payload = JSONstringify(createSyncRequest)
       \/ /\ localStore = EmptyDb
          /\ incoming = [accounts |-> <<>>, transactions |-> <<>>]
          /\ payload \in Payloads

\* mergeAccounts(localAccounts, remoteAccounts), on the inputs as drawn
MergeAccounts ==
    /\ txn = NoTxn
    /\ ret' = [fn |-> "mergeAccounts",
               localRows |-> getAllRows(localStore.accounts),
               result |-> mergeAccounts(getAllRows(localStore.accounts),
                                        incoming.accounts)]
    /\ UNCHANGED <<localStore, incoming, payload, txn, machineVars, syncVars, driverVars>>

\* mergeTransactions(localTransactions, remoteTransactions), on the inputs
\* as drawn
MergeTransactions ==
    /\ txn = NoTxn
    /\ ret' = [fn |-> "mergeTransactions",
               localRows |-> getAllRows(localStore.transactions),
               result |-> mergeTransactions(getAllRows(localStore.transactions),
                                            incoming.transactions)]
    /\ UNCHANGED <<localStore, incoming, payload, txn, machineVars, syncVars, driverVars>>

\* parseSyncMessage(payload), by either copy of the protocol module
ParseSyncMessage(module) ==
    /\ txn = NoTxn
    /\ ret' = [fn |-> "parseSyncMessage", module |-> module,
               result |-> parseSyncMessage(module, payload)]
    /\ UNCHANGED <<localStore, incoming, payload, txn, machineVars, syncVars, driverVars>>

\* applySyncData(db, accounts, transactions) is called: withTransactionAsync
\* issues BEGIN and runs the callback; the call has not returned
BeginApply ==
    /\ ~txn.active
    /\ txn.applied < MaxApplies
    /\ txn' = [active |-> TRUE, applied |-> txn.applied, before |-> localStore,
               accounts |-> incoming.accounts,
               transactions |-> incoming.transactions,
               accountsMerged |-> 0, transactionsMerged |-> 0]
    /\ ret' = NoCall
    /\ UNCHANGED <<localStore, incoming, payload, machineVars, syncVars, driverVars>>

\* one iteration of the accounts loop
ApplyAccount ==
    /\ txn.active
    /\ txn.accounts # <<>>
    /\ LET account == Head(txn.accounts)
           merged == isMerged(localStore.accounts, account)
       IN /\ localStore' =
                IF merged
                THEN [localStore EXCEPT !.accounts = upsertAccountFromSync(@, account)]
                ELSE localStore
          /\ txn' = [txn EXCEPT !.accounts = Tail(@),
                                !.accountsMerged = IF merged THEN @ + 1 ELSE @]
    /\ UNCHANGED <<incoming, payload, ret, machineVars, syncVars, driverVars>>

\* one iteration of the transactions loop
ApplyTransaction ==
    /\ txn.active
    /\ txn.accounts = <<>>
    /\ txn.transactions # <<>>
    /\ LET transaction == Head(txn.transactions)
           merged == isMerged(localStore.transactions, transaction)
       IN /\ localStore' =
                IF merged
                THEN [localStore EXCEPT
                        !.transactions = upsertTransactionFromSync(@, transaction)]
                ELSE localStore
          /\ txn' = [txn EXCEPT !.transactions = Tail(@),
                                !.transactionsMerged = IF merged THEN @ + 1 ELSE @]
    /\ UNCHANGED <<incoming, payload, ret, machineVars, syncVars, driverVars>>

\* a statement of the batch throws: withTransactionAsync issues ROLLBACK and
\* applySyncData rejects
StatementFails ==
    /\ txn.active
    /\ txn.accounts # <<>> \/ txn.transactions # <<>>
    /\ localStore' = txn.before
    /\ txn' = [active |-> FALSE, applied |-> txn.applied]
    /\ ret' = [fn |-> "applySyncData", threw |-> TRUE, before |-> txn.before]
    /\ UNCHANGED <<incoming, payload, machineVars, syncVars, driverVars>>

\* the callback has run to its end: withTransactionAsync issues COMMIT and
\* applySyncData returns the two counts
Commit ==
    /\ txn.active
    /\ txn.accounts = <<>>
    /\ txn.transactions = <<>>
    /\ txn' = [active |-> FALSE, applied |-> txn.applied + 1]
    /\ ret' = [fn |-> "applySyncData", threw |-> FALSE, before |-> txn.before,
               nth |-> txn.applied + 1,
               accountsMerged |-> txn.accountsMerged,
               transactionsMerged |-> txn.transactionsMerged]
    /\ UNCHANGED <<localStore, incoming, payload, machineVars, syncVars, driverVars>>

\* another task runs getAllAccountRows on the same connection while a batch
\* is being applied; `before` records what the store held when it began
GetAllAccountRows ==
    /\ txn.active
    /\ ret' = [fn |-> "getAllAccountRows",
               rows |-> getAllRows(localStore.accounts),
               before |-> txn.before]
    /\ UNCHANGED <<localStore, incoming, payload, txn, machineVars, syncVars, driverVars>>

NextMerge ==
    \/ MergeAccounts
    \/ MergeTransactions
    \/ /\ \E module \in SyncModules : ParseSyncMessage(module)
    \/ BeginApply
    \/ ApplyAccount
    \/ ApplyTransaction
    \/ StatementFails
    \/ Commit
    \/ GetAllAccountRows

SpecMerge == InitMerge /\ [][NextMerge]_vars

\* ------------------------------------------------------------------------
\* One device: the driver hook (useSyncMachine) step by step, with the
\* transport delivering texts and the peer connecting as they please
\* ------------------------------------------------------------------------
\* the peer of the session
ThePeer == "peer-123"

\* the record the peer's collections carry, and the records of the device
RemoteRow == [id |-> 1, name |-> "n2", created_at |-> 0, updated_at |-> 1]

LocalRow == [id |-> 2, name |-> "n1", created_at |-> 0, updated_at |-> 0]

\* the device holds its own record and, or not, a version of the peer's
\* record with the same updated_at
DriverStores ==
    {[accounts |-> {LocalRow} \cup mine, transactions |-> {}] :
        mine \in {{}, {[RemoteRow EXCEPT !.name = "n1"]}}}

\* what an `error instanceof Error` carries as its message
FailureMessage == "Database error"

\* the texts the transport can deliver to the device
DeliveredTexts ==
    {JSONstringify(createSyncRequest),
     JSONstringify(createSyncResponse(<<RemoteRow>>, <<>>)),
     JSONstringify(createSyncData(<<RemoteRow>>, <<>>)),
     JSONstringify(createSyncAck(TRUE, 1, 0))}

\* the awaited steps of each asynchronous driver function, in program order
sendRequestSteps == <<"sendRequest">>

sendResponseSteps == <<"read", "sendResponse">>

\* slip: the event is raised before the merge and the send
caseSyncResponse_bug == <<"raiseResponse", "apply", "read", "sendData">>

\* case "SYNC_RESPONSE" of handleSyncMessage
caseSyncResponse == <<"apply", "read", "sendData", "raiseResponse">>

\* slip: the ack is built before the merge has returned its counts
caseSyncData_bug == <<"sendAck", "apply", "raiseData">>

\* case "SYNC_DATA" of handleSyncMessage
caseSyncData == <<"apply", "sendAck", "raiseData">>

Steps(kind) ==
    CASE kind = "sendRequest" -> sendRequestSteps
      [] kind = "sendResponse" -> sendResponseSteps
      [] kind = "SYNC_RESPONSE" -> caseSyncResponse
      [] kind = "SYNC_DATA" -> caseSyncData

\* the steps that await the store or the transport
ThrowingSteps == {"apply", "read", "sendData", "sendAck", "sendRequest", "sendResponse"}

\* the message of the SYNC_ERROR raised for something thrown that is not an Error
fallback(kind) ==
    CASE kind = "sendRequest" -> "Failed to send sync request"
      [] kind = "sendResponse" -> "Failed to send sync response"
      [] OTHER -> "Unknown error"

\* an asynchronous driver function in flight: which one, the step it is
\* about to run, the text it handles, and its local variables
Task(kind, index, message) ==
    [kind |-> kind, pc |-> 1, index |-> index, message |-> message,
     rows |-> [accounts |-> <<>>, transactions |-> <<>>],
     counts |-> [accountsMerged |-> 0, transactionsMerged |-> 0]]

\* the effects that run after a render in which state.value has changed
sendRequestEffect(r) ==
    IF r.taken /\ r.value = "syncing.requesting" /\ r.context.syncingPeerId # Null
    THEN <<Task("sendRequest", 0, NoMessage)>>
    ELSE <<>>

sendResponseEffect(r) ==
    IF r.taken /\ r.value = "syncing.responding" /\ r.context.syncingPeerId # Null
    THEN <<Task("sendResponse", 0, NoMessage)>>
    ELSE <<>>

\* handleModeChange: the calls it awaits one after the other
handleModeChange(r) ==
    IF ~r.taken THEN <<>>
    ELSE IF r.value = "advertising" THEN <<<<"stopDiscovering", "advertise">>>>
    ELSE IF r.value = "discovering" THEN <<<<"stopAdvertising", "discover">>>>
    ELSE <<>>

\* all but the i-th
Without(seq, i) == SubSeq(seq, 1, i - 1) \o SubSeq(seq, i + 1, Len(seq))

\* send(event) from the driver: the machine takes the event, the render that
\* follows runs the effects of the session, and `rest` are the functions
\* still in flight; `threw` says that the event reports a step that has
\* thrown. (The mode effect shares no state with the session and is followed
\* on its own, under SpecModes.)
Raise(event, rest, threw) ==
    LET r == Transition("advertising", snapshot, event) IN
    /\ snapshot' = [value |-> r.value, context |-> r.context]
    /\ lastEvent' = event
    /\ tasks' = rest \o sendRequestEffect(r) \o sendResponseEffect(r)
    /\ Len(tasks') <= MaxTasks
    /\ failed' = IF Baseline(r.value) THEN FALSE
                 ELSE failed \/ (threw /\ ~Baseline(snapshot.value))

InitDriver ==
    /\ variant = "advertising"
    /\ snapshot = [value |-> initialValue(variant), context |-> initialContext(variant)]
    /\ timer = NoTimer
    /\ elapsed = 0
    /\ lastEvent = NoEvent
    /\ SyncIdle
    /\ incoming = [accounts |-> <<>>, transactions |-> <<>>]
    /\ payload = JSONstringify(createSyncRequest)
    /\ txn = NoTxn
    /\ ret = NoCall
    /\ localStore \in DriverStores
    /\ receivedMessages = <<>>
    /\ processed = 0
    /\ tasks = <<>>
    /\ outbox = {}
    /\ handled = <<>>
    /\ failed = FALSE
    /\ ackTimer = NullResult
    /\ modeTasks = <<>>
    /\ transport = [advertising |-> FALSE, discovering |-> FALSE]

\* what a step of the driver leaves alone besides its own variables
DriverFrame ==
    UNCHANGED <<variant, timer, elapsed, syncVars, incoming, payload, txn, ret,
                modeTasks, transport>>

\* the user starting a session, the peer connecting, and the timers of the
\* machine
UserSends(event) ==
    /\ Raise(event, tasks, FALSE)
    /\ UNCHANGED <<localStore, receivedMessages, processed, outbox, handled,
                   ackTimer>>
    /\ DriverFrame

\* startSync: START_SYNC now; the outcome of connect() comes later
StartSyncPressed ==
    /\ UserSends([type |-> "START_SYNC", peerId |-> ThePeer])

\* the effect watching connectedPeers
PendingPeerConnects ==
    /\ snapshot.context.pendingSyncPeerId # Null
    /\ snapshot.value = "syncing.connecting"
    /\ UserSends([type |-> "PEER_CONNECTED",
                  peerId |-> snapshot.context.pendingSyncPeerId])

\* startSync: connect() was rejected
ConnectRejected ==
    /\ snapshot.value = "syncing.connecting"
    /\ UserSends([type |-> "CONNECTION_FAILED", error |-> "Connection failed"])

\* the 2 s delayed transition out of success or error
ResultExpires ==
    /\ snapshot.value \in {"success", "error"}
    /\ UserSends([type |-> "xstate.after", state |-> snapshot.value,
                  delay |-> ResultDelay])

\* onTextReceived: setReceivedMessages((prev) => [...prev, message])
TransportDelivers ==
    /\ Len(receivedMessages) < MaxReceived
    /\ \E text \in DeliveredTexts : receivedMessages' = Append(receivedMessages, text)
    /\ UNCHANGED <<snapshot, lastEvent, localStore, processed, tasks, outbox,
                   handled, failed, ackTimer>>
    /\ DriverFrame

\* the message effect, run after a render in which receivedMessages has
\* changed: it looks at the last element only, and calls handleSyncMessage,
\* which runs up to its first await
MessageEffect ==
    /\ processed < Len(receivedMessages)
    /\ processed' = Len(receivedMessages)
    /\ LET index == Len(receivedMessages)
           syncMessage == parseSyncMessage("db/sync.ts", receivedMessages[index])
       IN IF syncMessage = NoMessage
          THEN UNCHANGED <<snapshot, lastEvent, tasks, handled, failed>>
          ELSE /\ handled' = Append(handled, index)
               /\ CASE syncMessage.type = "SYNC_REQUEST"
                          /\ snapshot.value = "advertising" ->
                        Raise([type |-> "SYNC_REQUESTED", peerId |-> ThePeer],
                              tasks, FALSE)
                    [] syncMessage.type = "SYNC_RESPONSE"
                          /\ snapshot.value = "syncing.requesting" ->
                        /\ Len(tasks) < MaxTasks
                        /\ tasks' = Append(tasks, Task("SYNC_RESPONSE", index,
                                                       syncMessage))
                        /\ UNCHANGED <<snapshot, lastEvent, failed>>
                    [] syncMessage.type = "SYNC_DATA"
                          /\ snapshot.value = "syncing.responding" ->
                        /\ Len(tasks) < MaxTasks
                        /\ tasks' = Append(tasks, Task("SYNC_DATA", index,
                                                       syncMessage))
                        /\ UNCHANGED <<snapshot, lastEvent, failed>>
                    [] syncMessage.type = "SYNC_ACK" ->
                        Raise([type |-> "SYNC_ACK_RECEIVED",
                               success |-> syncMessage.success,
                               accountsMerged |-> syncMessage.accountsMerged,
                               transactionsMerged |-> syncMessage.transactionsMerged,
                               error |-> syncMessage.error], tasks, FALSE)
                    [] OTHER ->
                        UNCHANGED <<snapshot, lastEvent, tasks, failed>>
    /\ UNCHANGED <<localStore, receivedMessages, outbox, ackTimer>>
    /\ DriverFrame

\* the i-th function in flight once it has run its step with these locals
Advanced(i, rows, counts) ==
    IF tasks[i].pc = Len(Steps(tasks[i].kind)) THEN Without(tasks, i)
    ELSE [tasks EXCEPT ![i].pc = @ + 1, ![i].rows = rows, ![i].counts = counts]

\* the awaited call of a driver function resolves and the function runs on
\* to its next await
TaskStep(i) ==
    LET t == tasks[i]
        step == Steps(t.kind)[t.pc]
    IN
    CASE step = "apply" ->
            LET merged == applySyncData(localStore, t.message.accounts,
                                        t.message.transactions) IN
            /\ localStore' = merged.db
            /\ tasks' = Advanced(i, t.rows,
                                 [accountsMerged |-> merged.accountsMerged,
                                  transactionsMerged |-> merged.transactionsMerged])
            /\ UNCHANGED <<snapshot, lastEvent, failed, outbox, ackTimer>>
      [] step = "read" ->
            /\ tasks' = Advanced(i, [accounts |-> getAllRows(localStore.accounts),
                                     transactions |-> getAllRows(localStore.transactions)],
                                 t.counts)
            /\ UNCHANGED <<snapshot, lastEvent, failed, outbox, ackTimer,
                           localStore>>
      [] step \in {"sendRequest", "sendResponse", "sendData", "sendAck"} ->
            LET message ==
                    CASE step = "sendRequest" -> createSyncRequest
                      [] step = "sendResponse" ->
                            createSyncResponse(t.rows.accounts, t.rows.transactions)
                      [] step = "sendData" ->
                            createSyncData(t.rows.accounts, t.rows.transactions)
                      [] step = "sendAck" ->
                            createSyncAck(TRUE, t.counts.accountsMerged,
                                          t.counts.transactionsMerged)
            IN
            /\ outbox' = outbox \cup {[text |-> JSONstringify(message),
                                       inReplyTo |-> t.index]}
            /\ tasks' = Advanced(i, t.rows, t.counts)
            /\ UNCHANGED <<snapshot, lastEvent, failed, ackTimer, localStore>>
      [] step = "raiseResponse" ->
            /\ Raise([type |-> "SYNC_RESPONSE_RECEIVED", peerId |-> ThePeer],
                     Advanced(i, t.rows, t.counts), FALSE)
            /\ UNCHANGED <<outbox, ackTimer, localStore>>
      [] step = "raiseData" ->
            /\ Raise([type |-> "SYNC_DATA_RECEIVED", peerId |-> ThePeer],
                     Advanced(i, t.rows, t.counts), FALSE)
            /\ ackTimer' = t.counts
            /\ UNCHANGED <<outbox, localStore>>

DriverStep ==
    /\ \E i \in DOMAIN tasks : TaskStep(i)
    /\ UNCHANGED <<receivedMessages, processed, handled>>
    /\ DriverFrame

\* slip: error.message read from whatever was thrown
caught_bug(kind, thrown) ==
    [type |-> "SYNC_ERROR",
     error |-> IF thrown = "Error" THEN FailureMessage ELSE Undefined]

\* the event a catch block sends for what was thrown
caught(kind, thrown) ==
    [type |-> "SYNC_ERROR",
     error |-> IF thrown = "Error" THEN FailureMessage ELSE fallback(kind)]

\* the awaited call rejects: the catch of the function raises SYNC_ERROR
DriverStepThrows ==
    /\ \E i \in DOMAIN tasks, thrown \in {"Error", "other"} :
          /\ Steps(tasks[i].kind)[tasks[i].pc] \in ThrowingSteps
          /\ Raise(caught(tasks[i].kind, thrown), Without(tasks, i), TRUE)
    /\ UNCHANGED <<localStore, receivedMessages, processed, outbox, handled,
                   ackTimer>>
    /\ DriverFrame

\* the setTimeout of the SYNC_DATA case: the responder's own ack
AckTimerFires ==
    /\ ackTimer # NullResult
    /\ Raise([type |-> "SYNC_ACK_RECEIVED", success |-> TRUE,
              accountsMerged |-> ackTimer.accountsMerged,
              transactionsMerged |-> ackTimer.transactionsMerged,
              error |-> Undefined], tasks, FALSE)
    /\ ackTimer' = NullResult
    /\ UNCHANGED <<localStore, receivedMessages, processed, outbox, handled>>
    /\ DriverFrame

\* the transport after one of its four calls has completed
called(t, call) ==
    CASE call = "advertise" -> [t EXCEPT !.advertising = TRUE]
      [] call = "stopAdvertising" -> [t EXCEPT !.advertising = FALSE]
      [] call = "discover" -> [t EXCEPT !.discovering = TRUE]
      [] call = "stopDiscovering" -> [t EXCEPT !.discovering = FALSE]

\* the hook is mounted in advertising and its mode effect has run
InitModes ==
    /\ variant = "advertising"
    /\ snapshot = [value |-> initialValue(variant), context |-> initialContext(variant)]
    /\ timer = NoTimer
    /\ elapsed = 0
    /\ lastEvent = NoEvent
    /\ SyncIdle
    /\ CallIdle
    /\ receivedMessages = <<>>
    /\ processed = 0
    /\ tasks = <<>>
    /\ outbox = {}
    /\ handled = <<>>
    /\ failed = FALSE
    /\ ackTimer = NullResult
    /\ modeTasks = <<<<"stopDiscovering", "advertise">>>>
    /\ transport = [advertising |-> FALSE, discovering |-> FALSE]

\* the events that take the machine from one baseline to the other, directly
\* or through a session that fails to connect
ModeEvents ==
    {[type |-> "FIND_DEVICES"], [type |-> "STOP_DISCOVERING"],
     [type |-> "START_SYNC", peerId |-> ThePeer],
     [type |-> "CONNECTION_FAILED", error |-> "Connection failed"],
     [type |-> "xstate.after", state |-> "error", delay |-> ResultDelay]}

\* send(event), and the mode effect of the render that follows
BaselineChanges ==
    /\ \E event \in ModeEvents :
          LET r == Transition("advertising", snapshot, event) IN
          /\ r.taken
          /\ snapshot' = [value |-> r.value, context |-> r.context]
          /\ lastEvent' = event
          /\ modeTasks' = modeTasks \o handleModeChange(r)
          /\ Len(modeTasks') <= MaxModeTasks
    /\ UNCHANGED <<variant, timer, elapsed, syncVars, callVars, receivedMessages,
                   processed, tasks, outbox, handled, failed, ackTimer, transport>>

\* the call a handleModeChange is awaiting completes
ModeStep ==
    /\ \E i \in DOMAIN modeTasks :
          /\ transport' = called(transport, Head(modeTasks[i]))
          /\ modeTasks' = IF Len(modeTasks[i]) = 1 THEN Without(modeTasks, i)
                          ELSE [modeTasks EXCEPT ![i] = Tail(@)]
    /\ UNCHANGED <<machineVars, syncVars, callVars, receivedMessages, processed,
                   tasks, outbox, handled, failed, ackTimer>>

NextModes ==
    \/ BaselineChanges
    \/ ModeStep

SpecModes == InitModes /\ [][NextModes]_vars

NextDriver ==
    \/ StartSyncPressed
    \/ PendingPeerConnects
    \/ ConnectRejected
    \/ ResultExpires
    \/ TransportDelivers
    \/ MessageEffect
    \/ DriverStep
    \/ DriverStepThrows
    \/ AckTimerFires

SpecDriver == InitDriver /\ [][NextDriver]_vars

\* ------------------------------------------------------------------------
\* Shape of the state
\* ------------------------------------------------------------------------
Values ==
    {"idle", "discovering", "advertising", "success", "error"} \cup SyncingSubstates

TypeOK ==
    /\ variant \in Variants
    /\ snapshot.value \in Values
    /\ snapshot.context.deviceName = DeviceName
    /\ snapshot.context.syncingPeerId \in PeerIds \cup {Null}
    /\ snapshot.context.pendingSyncPeerId \in PeerIds \cup {Null}
    /\ snapshot.context.lastError \in Errors \cup {Null, TimeoutMessage, SyncFailedMessage}
    /\ elapsed \in 0..(MaxElapsed + TickMs)
    /\ timer.left >= 0

\* ------------------------------------------------------------------------
\* Properties of the machine
\* ------------------------------------------------------------------------
ctx == snapshot.context

\* time passed in the step (whether or not a delayed transition fired)
TimePassed == lastEvent'.type \in {"clock.tick", "xstate.after"}

\* the test suite's reading of the connecting timeout, in ms
TestTimeout == 30000

\* C2: in discovering, START_SYNC with peer P moves the machine to
\* syncing.connecting and sets pendingSyncPeerId to P; syncingPeerId,
\* lastError and mergeResult stay as they were, absent.
C2_StartSync ==
    [][(snapshot.value = "discovering" /\ lastEvent'.type = "START_SYNC") =>
          /\ snapshot'.value = "syncing.connecting"
          /\ snapshot'.context.pendingSyncPeerId = lastEvent'.peerId
          /\ snapshot'.context.syncingPeerId = ctx.syncingPeerId
          /\ snapshot'.context.lastError = ctx.lastError
          /\ snapshot'.context.mergeResult = ctx.mergeResult
          /\ ctx.syncingPeerId = Null
          /\ ctx.lastError = Null
          /\ ctx.mergeResult = NullResult]_vars

C2_Witness ==
    /\ snapshot.value = "syncing.connecting"
    /\ lastEvent.type = "START_SYNC"
    /\ ctx.pendingSyncPeerId = lastEvent.peerId

\* C3: in syncing.connecting, PEER_CONNECTED for the pending peer moves the
\* machine to syncing.requesting, makes that peer the syncing peer and clears
\* pendingSyncPeerId, in one step.
C3_PeerConnectedPromotes ==
    [][(/\ snapshot.value = "syncing.connecting"
        /\ lastEvent'.type = "PEER_CONNECTED"
        /\ lastEvent'.peerId = ctx.pendingSyncPeerId) =>
          /\ snapshot'.value = "syncing.requesting"
          /\ snapshot'.context.syncingPeerId = lastEvent'.peerId
          /\ snapshot'.context.pendingSyncPeerId = Null]_vars

C3_Witness ==
    /\ snapshot.value = "syncing.requesting"
    /\ lastEvent.type = "PEER_CONNECTED"
    /\ ctx.syncingPeerId = lastEvent.peerId
    /\ ctx.pendingSyncPeerId = Null

\* C4: in syncing.connecting, PEER_CONNECTED for a peer other than the
\* pending one changes neither the state nor any context field.
C4_OtherPeerIgnored ==
    [][(/\ snapshot.value = "syncing.connecting"
        /\ lastEvent'.type = "PEER_CONNECTED"
        /\ lastEvent'.peerId # ctx.pendingSyncPeerId) =>
          snapshot' = snapshot]_vars

C4_Witness ==
    /\ snapshot.value = "syncing.connecting"
    /\ lastEvent.type = "PEER_CONNECTED"
    /\ ctx.pendingSyncPeerId \in PeerIds
    /\ lastEvent.peerId # ctx.pendingSyncPeerId

\* C5: in syncing.connecting, CONNECTION_FAILED moves the machine to error,
\* clears pendingSyncPeerId and records the event's error message.
C5_ConnectionFailed ==
    [][(snapshot.value = "syncing.connecting" /\ lastEvent'.type = "CONNECTION_FAILED") =>
          /\ snapshot'.value = "error"
          /\ snapshot'.context.pendingSyncPeerId = Null
          /\ snapshot'.context.lastError = lastEvent'.error]_vars

C5_Witness ==
    /\ snapshot.value = "error"
    /\ lastEvent.type = "CONNECTION_FAILED"
    /\ ctx.lastError = lastEvent.error
    /\ ctx.pendingSyncPeerId = Null

\* C6: a machine that has been in syncing.connecting for 15 seconds without a
\* connection moves to error on its own, with pendingSyncPeerId cleared and
\* lastError the fixed timeout message.
C6_ConnectingTimesOut ==
    [][(/\ snapshot.value = "syncing.connecting"
        /\ TimePassed
        /\ elapsed + TickMs >= ConnectingDelay) =>
          /\ snapshot'.value = "error"
          /\ snapshot'.context.pendingSyncPeerId = Null
          /\ snapshot'.context.lastError = TimeoutMessage]_vars

\* C7: leaving syncing.connecting cancels its timer: a scheduled delayed
\* transition always belongs to the state the machine is in, the connecting
\* timeout is only ever delivered in syncing.connecting, and the passage of
\* time moves no machine from syncing.requesting to error.
C7_TimerCancelled ==
    [][/\ (timer' # NoTimer => timer'.state = snapshot'.value)
       /\ (lastEvent'.type = "xstate.after" /\ lastEvent'.state = "syncing.connecting"
             => snapshot.value = "syncing.connecting")
       /\ (snapshot.value = "syncing.requesting" /\ TimePassed
             => snapshot'.value = "syncing.requesting")]_vars

C7_Witness ==
    /\ variant = "discovery"
    /\ snapshot.value = "syncing.requesting"
    /\ ctx.syncingPeerId \in PeerIds
    /\ elapsed >= ConnectingDelay
    /\ timer = NoTimer

\* C8: syncing.connecting does not time out before 30 seconds: after 15
\* seconds the machine is still in syncing.connecting, PEER_CONNECTED for the
\* pending peer then moves it to syncing.requesting, and 20 seconds later it
\* is still there.
C8_NoTimeoutBefore30s ==
    [][/\ ((/\ snapshot.value = "syncing.connecting"
            /\ TimePassed
            /\ elapsed + TickMs < TestTimeout)
              => snapshot'.value = "syncing.connecting")
       /\ ((/\ snapshot.value = "syncing.connecting"
            /\ lastEvent'.type = "PEER_CONNECTED"
            /\ lastEvent'.peerId = ctx.pendingSyncPeerId)
              => snapshot'.value = "syncing.requesting")
       /\ ((snapshot.value = "syncing.requesting" /\ TimePassed)
              => snapshot'.value = "syncing.requesting")]_vars

RespondingBaseline ==
    \/ variant = "discovery" /\ snapshot.value = "discovering"
    \/ variant = "advertising" /\ snapshot.value = "advertising"

C10_ResponseAndData ==
    [][snapshot.value \in SyncingSubstates =>
          /\ lastEvent'.type = "SYNC_RESPONSE_RECEIVED" =>
                /\ snapshot'.value = "syncing.processingResponse"
                /\ snapshot'.context = ctx
          /\ lastEvent'.type = "SYNC_DATA_RECEIVED" =>
                /\ snapshot'.value = "syncing.processingData"
                /\ snapshot'.context = ctx]_vars

C10_Witness ==
    /\ snapshot.value = "syncing.processingData"
    /\ lastEvent.type = "SYNC_DATA_RECEIVED"
    /\ ctx.pendingSyncPeerId \in PeerIds

\* C11: from every substate of syncing, SYNC_ACK_RECEIVED with success = true
\* moves the machine to success and makes mergeResult exactly the two counts
\* of the event; with success = false it moves the machine to error and makes
\* lastError the error of the event, or "Sync failed" when it carries none.
C11_AckEndsSession ==
    [][(snapshot.value \in SyncingSubstates /\ lastEvent'.type = "SYNC_ACK_RECEIVED") =>
          IF lastEvent'.success
          THEN /\ snapshot'.value = "success"
               /\ snapshot'.context.mergeResult =
                     [accountsMerged |-> lastEvent'.accountsMerged,
                      transactionsMerged |-> lastEvent'.transactionsMerged]
          ELSE /\ snapshot'.value = "error"
               /\ snapshot'.context.lastError =
                     IF lastEvent'.error = Undefined THEN SyncFailedMessage
                     ELSE lastEvent'.error]_vars

C11_Witness ==
    /\ snapshot.value = "success"
    /\ lastEvent.type = "SYNC_ACK_RECEIVED"
    /\ lastEvent.success
    /\ lastEvent.accountsMerged # lastEvent.transactionsMerged
    /\ ctx.mergeResult = [accountsMerged |-> lastEvent.accountsMerged,
                          transactionsMerged |-> lastEvent.transactionsMerged]

\* C12: from every substate of syncing, SYNC_ERROR moves the machine to error
\* and makes lastError the message of the event.
C12_SyncError ==
    [][(snapshot.value \in SyncingSubstates /\ lastEvent'.type = "SYNC_ERROR") =>
          /\ snapshot'.value = "error"
          /\ snapshot'.context.lastError = lastEvent'.error]_vars

C12_Witness ==
    /\ snapshot.value = "error"
    /\ lastEvent.type = "SYNC_ERROR"
    /\ ctx.lastError = lastEvent.error
    /\ ctx.syncingPeerId \in PeerIds

\* the machine leaves success or error in this step: RESET is delivered, or
\* time passes and 2 seconds have elapsed since the state was entered
LeavesResult ==
    /\ snapshot.value \in {"success", "error"}
    /\ \/ lastEvent'.type = "RESET"
       \/ TimePassed /\ elapsed + TickMs >= ResultDelay

\* C13: success and error are transient: on RESET, or once 2 seconds have
\* elapsed, the machine returns to discovering (to advertising where the
\* configuration has that baseline); leaving success clears syncingPeerId and
\* mergeResult, leaving error clears syncingPeerId and lastError.
C13_ReturnsToDiscovering ==
    [][LeavesResult =>
          /\ snapshot'.value = IF variant = "advertising" /\ ctx.previousMode = "advertising"
                               THEN "advertising" ELSE "discovering"
          /\ snapshot'.context.syncingPeerId = Null
          /\ (snapshot.value = "success" => snapshot'.context.mergeResult = NullResult)
          /\ (snapshot.value = "error" => snapshot'.context.lastError = Null)]_vars

\* C14: a newly started machine is in discovering (in advertising where the
\* configuration has that baseline), with deviceName the configured name and
\* syncingPeerId, pendingSyncPeerId, lastError and mergeResult all null.
C14_InitialState ==
    lastEvent = NoEvent =>
        /\ snapshot.value = IF variant = "advertising" THEN "advertising" ELSE "discovering"
        /\ ctx.deviceName = DeviceName
        /\ ctx.syncingPeerId = Null
        /\ ctx.pendingSyncPeerId = Null
        /\ ctx.lastError = Null
        /\ ctx.mergeResult = NullResult

\* the events of the sync protocol (those of section 4.3)
ProtocolEvents ==
    {"START_SYNC", "SYNC_REQUESTED", "PEER_CONNECTED", "CONNECTION_FAILED",
     "SYNC_RESPONSE_RECEIVED", "SYNC_DATA_RECEIVED", "SYNC_ACK_RECEIVED",
     "SYNC_ERROR", "RESET"}

\* the (state, event) pairs for which section 4.3 lists a transition
Listed(s, event) ==
    \/ /\ s.value \in {"discovering", "advertising"}
       /\ event.type \in {"START_SYNC", "SYNC_REQUESTED"}
    \/ /\ s.value = "syncing.connecting"
       /\ \/ event.type = "PEER_CONNECTED" /\ event.peerId = s.context.pendingSyncPeerId
          \/ event.type = "CONNECTION_FAILED"
    \/ /\ s.value \in SyncingSubstates
       /\ event.type \in {"SYNC_RESPONSE_RECEIVED", "SYNC_DATA_RECEIVED",
                          "SYNC_ACK_RECEIVED", "SYNC_ERROR"}
    \/ /\ s.value \in {"success", "error"}
       /\ event.type = "RESET"

Baselines == {"idle", "discovering", "advertising"}

\* C26: whenever the machine is in its baseline (idle or discovering, or
\* advertising in that variant), the session context is neutral:
\* syncingPeerId, pendingSyncPeerId, lastError and mergeResult are all null.
C26_BaselineNeutral ==
    snapshot.value \in Baselines
    => /\ ctx.syncingPeerId = Null
       /\ ctx.pendingSyncPeerId = Null
       /\ ctx.lastError = Null
       /\ ctx.mergeResult = NullResult

\* C27: lastError is non-null only if the machine is in error, and
\* mergeResult is non-null only if the machine is in success.
C27_ResultFields ==
    /\ ctx.lastError # Null => snapshot.value = "error"
    /\ ctx.mergeResult # NullResult => snapshot.value = "success"

\* the machine has been in error with an error recorded and has left it, and
\* has been in success with counts recorded
C27_Witness ==
    /\ snapshot.value = "success"
    /\ ctx.mergeResult # NullResult
    /\ ctx.lastError = Null
    /\ lastEvent.type = "SYNC_ACK_RECEIVED"

\* the pending peer becomes the syncing peer in this step
Promoted ==
    /\ ctx.pendingSyncPeerId # Null
    /\ ctx.syncingPeerId # ctx.pendingSyncPeerId
    /\ snapshot'.context.syncingPeerId = ctx.pendingSyncPeerId

\* C28: pendingSyncPeerId and syncingPeerId are never both non-null, and a
\* pending peer becomes the syncing peer only by the PEER_CONNECTED
\* transition out of syncing.connecting (hence at most once in a session).
C28_PendingOrSyncing ==
    /\ [](ctx.pendingSyncPeerId = Null \/ ctx.syncingPeerId = Null)
    /\ [][Promoted =>
            /\ snapshot.value = "syncing.connecting"
            /\ lastEvent'.type = "PEER_CONNECTED"
            /\ snapshot'.value = "syncing.requesting"
            /\ snapshot'.context.pendingSyncPeerId = Null]_vars

\* from some point on nothing is delivered to the actor but the passage of
\* time: the peer sends nothing more and the user does nothing
OnlyTimers == <>[](lastEvent.type \in {"clock.tick", "xstate.after"})

\* C29: no session hangs: once the machine has entered a substate of syncing
\* it eventually reaches success or error and from there the baseline, even
\* if the peer never sends another message and the user does nothing (timers
\* fire).
C29_NoSessionHangs ==
    OnlyTimers
    => /\ (snapshot.value \in SyncingSubstates)
             ~> (snapshot.value \in {"success", "error"})
       /\ (snapshot.value \in {"success", "error"})
             ~> (snapshot.value \in Baselines)

\* ------------------------------------------------------------------------
\* Properties of the driver
\* ------------------------------------------------------------------------
\* the message a delivered or sent text decodes to
Decoded(text) == parseSyncMessage("db/sync.ts", text)

\* the step the i-th function in flight is about to run
NextStep(i) == Steps(tasks[i].kind)[tasks[i].pc]

\* `rows` holds, for every record of `remoteRows`, that record or a version of
\* it that is not older
Covers(rows, remoteRows) ==
    \A k \in DOMAIN remoteRows :
        \E j \in DOMAIN rows :
            /\ rows[j].id = remoteRows[k].id
            /\ rows[j].updated_at >= remoteRows[k].updated_at
            /\ rows[j].updated_at = remoteRows[k].updated_at
                  => rows[j] \in {remoteRows[k]}
                                 \cup UNION {store.accounts : store \in DriverStores}

\* the messages of this type sent in reply to the index-th delivered text
Replies(type, index) ==
    {e \in outbox : e.inReplyTo = index /\ Decoded(e.text).type = type}

\* the handler of a SYNC_RESPONSE sends no SYNC_DATA before it has merged and
\* read, has sent one when it is about to raise SYNC_RESPONSE_RECEIVED, and
\* every SYNC_DATA sent covers the records of the response it answers
ResponseOrder ==
    /\ \A i \in DOMAIN tasks :
          tasks[i].kind = "SYNC_RESPONSE"
          => /\ NextStep(i) = "raiseResponse"
                   => Replies("SYNC_DATA", tasks[i].index) # {}
             /\ NextStep(i) # "raiseResponse"
                   => Replies("SYNC_DATA", tasks[i].index) = {}
             /\ NextStep(i) = "sendData"
                   => Covers(tasks[i].rows.accounts, tasks[i].message.accounts)
    /\ \A e \in outbox :
          Decoded(e.text).type = "SYNC_DATA"
          => /\ Decoded(receivedMessages[e.inReplyTo]).type = "SYNC_RESPONSE"
             /\ Covers(Decoded(e.text).accounts,
                       Decoded(receivedMessages[e.inReplyTo]).accounts)

\* a SYNC_RESPONSE handler is started in this step
ResponseHandlerStarts ==
    /\ Len(tasks') = Len(tasks) + 1
    /\ tasks'[Len(tasks')].kind = "SYNC_RESPONSE"

\* the i-th function in flight, the handler of a SYNC_RESPONSE, runs its
\* merge, its read or its send in this step
ResponseHandlerWorks(i) ==
    /\ tasks[i].kind = "SYNC_RESPONSE"
    /\ NextStep(i) \in {"apply", "read", "sendData"}
    /\ Len(tasks') = Len(tasks)
    /\ tasks'[i].pc = tasks[i].pc + 1

AcksWith(index, counts) ==
    {e \in Replies("SYNC_ACK", index) :
        /\ Decoded(e.text).success = TRUE
        /\ Decoded(e.text).accountsMerged = counts.accountsMerged
        /\ Decoded(e.text).transactionsMerged = counts.transactionsMerged}

\* the handler of a SYNC_DATA sends no SYNC_ACK before its merge has
\* returned, has sent one with success = true and the counts of the merge
\* when it is about to raise SYNC_DATA_RECEIVED, and the local ack it
\* schedules carries the counts of a SYNC_ACK that was sent
DataOrder ==
    /\ \A i \in DOMAIN tasks :
          tasks[i].kind = "SYNC_DATA"
          => /\ NextStep(i) = "raiseData"
                   => /\ Replies("SYNC_ACK", tasks[i].index)
                            = AcksWith(tasks[i].index, tasks[i].counts)
                      /\ AcksWith(tasks[i].index, tasks[i].counts) # {}
                      /\ tasks[i].counts.accountsMerged = 1
                            => RemoteRow \in localStore.accounts
             /\ NextStep(i) # "raiseData"
                   => Replies("SYNC_ACK", tasks[i].index) = {}
             /\ NextStep(i) = "sendAck"
                   => /\ tasks[i].counts.accountsMerged \in {0, 1}
                      /\ \E row \in localStore.accounts :
                            /\ row.id = RemoteRow.id
                            /\ tasks[i].counts.accountsMerged = 1 => row = RemoteRow
    /\ ackTimer # NullResult
          => \E k \in DOMAIN receivedMessages :
                /\ Decoded(receivedMessages[k]).type = "SYNC_DATA"
                /\ AcksWith(k, ackTimer) # {}

\* the i-th function in flight, the handler of a SYNC_DATA, raises
\* SYNC_DATA_RECEIVED in this step and returns
DataReceivedRaised(i) ==
    /\ tasks[i].kind = "SYNC_DATA"
    /\ NextStep(i) = "raiseData"
    /\ tasks' = Without(tasks, i)
    /\ lastEvent'.type = "SYNC_DATA_RECEIVED"
    /\ UNCHANGED outbox

\* the local ack scheduled by the SYNC_DATA handler is delivered in this step
LocalAckDelivered ==
    /\ ackTimer # NullResult
    /\ ackTimer' = NullResult

FailureStrings ==
    {FailureMessage} \cup {fallback(kind) : kind \in {"sendRequest", "sendResponse",
                                                       "SYNC_RESPONSE", "SYNC_DATA"}}

\* the catch block of a driver function sends its SYNC_ERROR in this step
Thrown ==
    /\ lastEvent'.type = "SYNC_ERROR"
    /\ Len(tasks') < Len(tasks)
    /\ UNCHANGED <<outbox, localStore>>

SyncMessageIndices(n) ==
    SelectSeq([k \in 1..n |-> k],
              LAMBDA k : Decoded(receivedMessages[k]) # NoMessage)

\* the message handlers still awaiting the store or the transport
HandlersInFlight ==
    {i \in DOMAIN tasks : tasks[i].kind \in {"SYNC_RESPONSE", "SYNC_DATA"}}

\* C24: the sync messages the transport has delivered are handled in the
\* order of their delivery, none skipped, also when two are delivered before
\* the message effect has run; and the handling of one message is not
\* started while the handling of an earlier one is still awaiting the store
\* or the transport.
C24_InDeliveryOrder ==
    /\ handled = SyncMessageIndices(processed)
    /\ Cardinality(HandlersInFlight) <= 1

\* C25: advertising and discovery are never both active on the transport,
\* under every interleaving of successive baseline changes with the stop and
\* start calls of earlier changes that are still pending.
C25_NeverBothActive ==
    ~(transport.advertising /\ transport.discovering)

\* ------------------------------------------------------------------------
\* Properties of the merge and of the wire format
\* ------------------------------------------------------------------------
\* how many times `row` occurs in the array `rows`
Count(rows, row) == Cardinality({i \in DOMAIN rows : rows[i] = row})

\* some local record has the id of `row` / has it and is strictly older
HasLocal(localRows, row) == \E i \in DOMAIN localRows : localRows[i].id = row.id

RemoteNewer(localRows, row) ==
    \E i \in DOMAIN localRows :
        /\ localRows[i].id = row.id
        /\ row.updated_at > localRows[i].updated_at

ClassifiedOnce(localRows, remoteRows, result) ==
    /\ \A k \in DOMAIN remoteRows :
          LET row == remoteRows[k] IN
          /\ Count(result.toInsert, row) =
                (IF ~HasLocal(localRows, row) THEN 1 ELSE 0)
          /\ Count(result.toUpdate, row) =
                (IF RemoteNewer(localRows, row) THEN 1 ELSE 0)
    /\ result.keptLocal =
          Cardinality({k \in DOMAIN remoteRows :
                          /\ HasLocal(localRows, remoteRows[k])
                          /\ ~RemoteNewer(localRows, remoteRows[k])})
    /\ Len(result.toInsert) + Len(result.toUpdate) + result.keptLocal
          = Len(remoteRows)
    /\ \A i \in DOMAIN localRows :
          (\A k \in DOMAIN remoteRows : remoteRows[k].id # localRows[i].id)
          => /\ Count(result.toInsert, localRows[i]) = 0
             /\ Count(result.toUpdate, localRows[i]) = 0

\* C16: mergeAccounts and mergeTransactions classify every remote record
\* exactly once: into toInsert iff no local record has its id, into toUpdate
\* iff a local record has its id and the remote updated_at is strictly
\* greater, otherwise into the keptLocal count; the three add up to the number
\* of remote records, and a record held only locally is not in the output.
C16_ClassifiedOnce ==
    /\ ret.fn = "mergeAccounts"
          => ClassifiedOnce(ret.localRows, incoming.accounts, ret.result)
    /\ ret.fn = "mergeTransactions"
          => ClassifiedOnce(ret.localRows, incoming.transactions, ret.result)

\* mergeAccounts has returned one update and has kept one local record whose
\* updated_at equals the remote one
C16_Witness ==
    /\ ret.fn = "mergeAccounts"
    /\ Len(ret.result.toUpdate) = 1
    /\ ret.result.keptLocal = 1
    /\ \E i \in DOMAIN ret.localRows, k \in DOMAIN incoming.accounts :
          /\ ret.localRows[i].id = incoming.accounts[k].id
          /\ ret.localRows[i].updated_at = incoming.accounts[k].updated_at
          /\ ret.localRows[i].name # incoming.accounts[k].name

\* the row with this id, in a table that has one
RowOf(table, id) == CHOOSE row \in table : row.id = id

\* for every remote row whose id the store held before the call: the store
\* now holds whichever of the two has the strictly greater updated_at, and
\* its own row on a tie
LastWriteWins(before, remoteRows, after) ==
    \A k \in DOMAIN remoteRows :
        LET row == remoteRows[k] IN
        existing(before, row.id) # {}
        => LET local == RowOf(before, row.id) IN
           /\ existing(after, row.id) # {}
           /\ RowOf(after, row.id) =
                 (IF row.updated_at > local.updated_at THEN row ELSE local)

C19_AllOrNothing ==
    /\ (ret.fn = "applySyncData" /\ ret.threw) => localStore = ret.before
    /\ ret.fn = "getAllAccountRows"
          => ret.rows \in
                {getAllRows(ret.before.accounts),
                 getAllRows(applySyncData(ret.before, incoming.accounts,
                                          incoming.transactions).db.accounts)}

\* what JSON.parse gives for this text is a structure carrying a known tag
Decodes(text) ==
    /\ text.parses
    /\ text.data.truthy
    /\ text.data.typeof = "object"
    /\ "type" \in DOMAIN text.data.fields
    /\ text.data.fields.type \in MessageTypes

\* C20: parseSyncMessage returns the decoded message exactly when the payload
\* parses as a structure whose type tag is one of the five known tags
\* (SYNC_REQUEST, SYNC_RESPONSE, SYNC_DATA, SYNC_ACK, SYNC_VERSION_MISMATCH);
\* for every other payload, a text that does not parse included, it returns
\* null.
C20_ParseSyncMessage ==
    ret.fn = "parseSyncMessage"
    => ret.result = (IF Decodes(payload) THEN payload.data.fields ELSE NoMessage)

\* the elements of an array
Range(rows) == {rows[i] : i \in DOMAIN rows}

\* `table` with the toInsert records added and the toUpdate records put in
\* the place of the rows that have their ids
Partitioned(table, result) ==
    {row \in table : \A u \in Range(result.toUpdate) : u.id # row.id}
        \cup Range(result.toInsert) \cup Range(result.toUpdate)

HandshakeComplete(d) ==
    /\ actors[d].value = "success"
    /\ actors[d].context.mergeResult # NullResult

\* C1: after a complete handshake with no local write on either device while
\* the session was open, both devices hold the same records: the same
\* identifiers and, for each, the same field values.
C1_Converged ==
    ((\E d \in Devices : HandshakeComplete(d)) /\ ~dirty) => db["A"] = db["B"]

====
